---- MODULE Spec2Model ----
(***************************************************************************)
(* RC6 block cipher of src/core/lib/RC6.mjs: word codec, key schedule,     *)
(* block transform, PKCS#7-style padding and the ECB / CBC mode drivers,   *)
(* modelled as one cipher instance that receives a sequence of calls.      *)
(*                                                                         *)
(* Representation.  A byte is a number in 0..255 and a buffer (Uint8Array) *)
(* is a sequence of bytes.  A 32-bit unsigned word w is the pair           *)
(* <<hi, lo>> of its 16-bit halves, w = hi * 2^16 + lo, because the        *)
(* model checker's integers are 32-bit signed; every word operation below  *)
(* is the JavaScript operation on the uint32 value the pair denotes.       *)
(* JavaScript arrays are 0-based: At(s, i) reads element i.                *)
(***************************************************************************)
EXTENDS Integers, Sequences, FiniteSets, TLC

VARIABLES key, rounds, keySchedule, last, source

vars == <<key, rounds, keySchedule, last, source>>

\* ------------------------------------------------------------------ bounds
\* Largest round count an instance is constructed with.
MaxRounds == 2

\* Largest number of whole 16-byte blocks in a caller's buffer.
MaxBlocks == 2

\* ------------------------------------------------------- integer helpers
\* 2^16, the base of the two halves of a word.
H16 == 256 * 256

Byte == 0..255

At(s, i) == s[i + 1]

Max(a, b) == IF a >= b THEN a ELSE b

RECURSIVE Pow2(_)
Pow2(n) == IF n = 0 THEN 1 ELSE 2 * Pow2(n - 1)

\* Bitwise exclusive or of two naturals (JavaScript ^ on non-negative values).
RECURSIVE BitXor(_, _)
BitXor(a, b) ==
    IF a = 0 THEN b
    ELSE IF b = 0 THEN a
    ELSE ((a + b) % 2) + 2 * BitXor(a \div 2, b \div 2)

\* Number of significant bits of a natural (0 for 0).
RECURSIVE BitLen(_)
BitLen(n) == IF n = 0 THEN 0 ELSE 1 + BitLen(n \div 2)

\* ------------------------------------------------- 32-bit word arithmetic
W(hi, lo) == <<hi, lo>>

Hi(w) == w[1]

Lo(w) == w[2]

Zero32 == W(0, 0)

\* The word of the half sums h and l, each below 2^17: the carry of l goes
\* into h and both are reduced modulo 2^16.
Carry(h, l) == W((h + (l \div H16)) % H16, l % H16)

\* (a + b) >>> 0
Add32(a, b) == Carry(Hi(a) + Hi(b), Lo(a) + Lo(b))

\* (a - b) >>> 0
Sub32(a, b) == Carry(Hi(a) - Hi(b) + H16 - 1, Lo(a) - Lo(b) + H16)

\* (a ^ b) >>> 0
Xor32(a, b) == W(BitXor(Hi(a), Hi(b)), BitXor(Lo(a), Lo(b)))

\* The word <<hi, lo>> rotated left by n in 0..15 bits, with p = 2^n and
\* q = 2^(16 - n).
RotlHalves(hi, lo, p, q) == W(((hi % q) * p) + (lo \div q), ((lo % q) * p) + (hi \div q))

RotlSmall(w, n) == RotlHalves(Hi(w), Lo(w), Pow2(n), Pow2(16 - n))

\* Rotation to the left by n in 0..31 bits.
Rotl(w, n) ==
    IF n < 16 THEN RotlSmall(w, n) ELSE RotlSmall(W(Lo(w), Hi(w)), n - 16)

\* RC6.rotateLeft(value, amount): the amount is reduced to its bottom 5 bits
\* (callers hand an amount already reduced modulo 2^16 or less).
rotateLeft(value, amount) == Rotl(value, amount % 32)

\* RC6.rotateRight(value, amount)
rotateRight(value, amount) == Rotl(value, (32 - (amount % 32)) % 32)

\* The bottom 5 bits of a word: w & 0x1F.
Low5(w) == Lo(w) % 32

P32 == W(47073, 20835)    \* 0xB7E15163

Q32 == W(40503, 31161)    \* 0x9E3779B9

\* --------------------------------------------- the round function product
\* Little-endian base-256 limbs of a number below 2^32 given by its halves
\* (hi may be up to 2^17 - 1: five limbs).
LimbsOf(hi, lo) ==
    <<lo % 256, lo \div 256, hi % 256, (hi \div 256) % 256, hi \div H16>>

\* Limbs of B.
Limbs(w) == LimbsOf(Hi(w), Lo(w))

\* Limbs of 2 * B + 1 (33 bits, exact in a double).
TwicePlusOneLimbs(w) ==
    LimbsOf(2 * Hi(w) + ((2 * Lo(w) + 1) \div H16), (2 * Lo(w) + 1) % H16)

\* Column k (0-based) of the schoolbook product of limb vectors x and y, from
\* limb i (1-based) of x on.
RECURSIVE ColumnFrom(_, _, _, _)
ColumnFrom(x, y, k, i) ==
    IF i > Len(x) THEN 0
    ELSE (IF k - (i - 1) >= 0 /\ k - (i - 1) < Len(y)
          THEN x[i] * y[k - (i - 1) + 1] ELSE 0) + ColumnFrom(x, y, k, i + 1)

\* The exact product x * y as normalised base-256 limbs (Len(x) + Len(y)
\* limbs), from column k on, s being column k's sum with the carry.
RECURSIVE MulFrom(_, _, _, _)
MulFrom(x, y, k, s) ==
    IF k = Len(x) + Len(y) THEN <<>>
    ELSE <<s % 256>> \o MulFrom(x, y, k + 1, ColumnFrom(x, y, k + 1, 1) + (s \div 256))

MulLimbs(x, y) == MulFrom(x, y, 0, ColumnFrom(x, y, 0, 1))

\* Number of significant bits of a limb vector.
RECURSIVE LimbBitLen(_, _)
LimbBitLen(l, i) ==
    IF i = 0 THEN 0
    ELSE IF l[i] # 0 THEN 8 * (i - 1) + BitLen(l[i])
    ELSE LimbBitLen(l, i - 1)

\* hi * 2^16 + lo with its low k bits (p2k = 2^k, 0 < k <= 12) rounded away to
\* nearest, ties to even, reduced modulo 2^32.
RoundTo(hi, lo, p2k) ==
    Add32(W(hi, lo - (lo % p2k)),
          IF \/ lo % p2k > p2k \div 2
             \/ (lo % p2k = p2k \div 2 /\ (lo \div p2k) % 2 = 1)
          THEN W(0, p2k) ELSE Zero32)

\* The low 32 bits hi * 2^16 + lo of a product of n significant bits, as a
\* double holds it: exact up to 53 bits, else the low n - 53 bits are rounded.
RoundBits(hi, lo, n) == IF n <= 53 THEN W(hi, lo) ELSE RoundTo(hi, lo, Pow2(n - 53))

RoundProduct(prod) ==
    RoundBits(prod[3] + 256 * prod[4], prod[1] + 256 * prod[2],
              LimbBitLen(prod, Len(prod)))

\* (B * (2 * B + 1)) >>> 0 as JavaScript computes it: the operands are IEEE-754
\* doubles, so the exact product is first rounded to 53 significant bits
\* (round to nearest, ties to even) and only then reduced modulo 2^32.
MulRound32(B) == RoundProduct(MulLimbs(Limbs(B), TwicePlusOneLimbs(B)))

\* The low 32 bits of the exact product.
ExactProduct(prod) == W(prod[3] + 256 * prod[4], prod[1] + 256 * prod[2])

\* B * (2 * B + 1) reduced exactly modulo 2^32 (the reference algorithm).
MulExact32(B) == ExactProduct(MulLimbs(Limbs(B), TwicePlusOneLimbs(B)))

\* ------------------------------------------------------------ word codec
\* Byte i (0-based) of bytes, zero past the end of the buffer.
ByteAt(bytes, i) == IF i < Len(bytes) THEN At(bytes, i) ELSE 0

\* The word starting at byte i (0-based) of bytes.
WordAt(bytes, i) ==
    W(ByteAt(bytes, i + 2) + 256 * ByteAt(bytes, i + 3),
      ByteAt(bytes, i) + 256 * ByteAt(bytes, i + 1))

\* RC6.bytesToWords(bytes): ceil(len / 4) little-endian words.
bytesToWords(bytes) ==
    [n \in 1..((Len(bytes) + 3) \div 4) |-> WordAt(bytes, 4 * (n - 1))]

\* Byte j (0..3) of a word.
ByteOf(w, j) ==
    IF j = 0 THEN Lo(w) % 256
    ELSE IF j = 1 THEN Lo(w) \div 256
    ELSE IF j = 2 THEN Hi(w) % 256
    ELSE Hi(w) \div 256

\* RC6.wordsToBytes(words): 4 * len bytes, little-endian.
wordsToBytes(words) ==
    [n \in 1..(4 * Len(words)) |-> ByteOf(words[((n - 1) \div 4) + 1], (n - 1) % 4)]

\* ---------------------------------------------------------- key schedule
\* The initial schedule, grown from S = <<P32>> to t words:
\* S[i] = (S[i - 1] + Q32) >>> 0.
RECURSIVE FillS(_, _)
FillS(S, t) ==
    IF Len(S) >= t THEN S
    ELSE FillS(Append(S, Add32(S[Len(S)], Q32)), t)

InitialS(t) == FillS(<<P32>>, t)

\* The cursor j once (j + 1) % c has been computed with c = 0.
NaN == 0 - 1

\* The state of the key mixing loop: schedule, key words, accumulators.  L
\* holds the elements of the keyWords array, N its property "NaN" (<<>> while
\* it is undefined, else the one word stored there): with no key word (c = 0)
\* the cursor j is NaN from the second step on, and keyWords[NaN] = B creates
\* that property, which later steps read back.
MixState(S, L, N, A, B) == [S |-> S, L |-> L, N |-> N, A |-> A, B |-> B]

\* keyWords[j] as a sequence of one word, <<>> when it is undefined.
KeyWordAt(m, j) ==
    IF j = NaN THEN m.N
    ELSE IF j < Len(m.L) THEN <<At(m.L, j)>>
    ELSE <<>>

\* B = keyWords[j] = rotateLeft((keyWords[j] + A + B) >>> 0, (A + B) & 0x1F)
\* with the new A.  When keyWords[j] is undefined, undefined + A + B is NaN,
\* NaN >>> 0 is 0 and so is B.
MixB(m, j, c, A1) ==
    IF KeyWordAt(m, j) = <<>> THEN Zero32
    ELSE rotateLeft(Add32(Add32(KeyWordAt(m, j)[1], A1), m.B),
                    Low5(Add32(A1, m.B)))

\* keyWords[j] = B1: on the property "NaN", on an element, or on index 0 of
\* the empty array, which gets its first element.
StoreKeyWord(L, j, B1) ==
    IF j = NaN THEN L
    ELSE IF j < Len(L) THEN [L EXCEPT ![j + 1] = B1]
    ELSE Append(L, B1)

\* The stores of one step: S[i] = A1 and keyWords[j] = B1.
MixStore(m, i, j, c, A1, B1) ==
    MixState([m.S EXCEPT ![i + 1] = A1], StoreKeyWord(m.L, j, B1),
             IF j = NaN THEN <<B1>> ELSE m.N, A1, B1)

\* A = S[i] = rotateLeft((S[i] + A + B) >>> 0, 3), then B, on cursors i, j.
MixAt(m, i, j, c, A1) == MixStore(m, i, j, c, A1, MixB(m, j, c, A1))

\* The cursor j at step s: s mod c; with c = 0 it is 0 at step 0 and NaN,
\* (j + 1) % 0, at every later step.
CursorJ(s, c) == IF c # 0 THEN s % c ELSE IF s = 0 THEN 0 ELSE NaN

\* Step s of the key mixing loop: the cursors are i = s mod t and j.
MixStep(m, s, t, c) ==
    MixAt(m, s % t, CursorJ(s, c), c,
          rotateLeft(Add32(Add32(At(m.S, s % t), m.A), m.B), 3))

\* Steps from, from + 1, .., to - 1 of the key mixing loop applied in order.
\* The range is halved, and the first half's result is looked at (its schedule
\* keeps t words, the loop's invariant) before the second half starts, only to
\* keep the evaluation shallow.
RECURSIVE Mix(_, _, _, _, _), MixRest(_, _, _, _, _)
Mix(m, from, to, t, c) ==
    IF to <= from THEN m
    ELSE IF to = from + 1 THEN MixStep(m, from, t, c)
    ELSE MixRest(Mix(m, from, (from + to) \div 2, t, c), (from + to) \div 2, to, t, c)

MixRest(left, mid, to, t, c) ==
    IF Len(left.S) = t THEN Mix(left, mid, to, t, c) ELSE left

\* The schedule of t words mixed with the key words.
Schedule(keyWords, t) ==
    Mix(MixState(InitialS(t), keyWords, <<>>, Zero32, Zero32), 0,
        3 * Max(t, Len(keyWords)), t, Len(keyWords)).S

\* A faulty variant of keyExpansion: the table size of RC5, 2 * (r + 1) words.
keyExpansionShort(keyBytes, r) == Schedule(bytesToWords(keyBytes), 2 * (r + 1))

\* keyExpansion(key) of an instance with the given round count.
keyExpansion(keyBytes, r) == Schedule(bytesToWords(keyBytes), 2 * (r + 2))

\* -------------------------------------------------------- block transform
\* (B * (2 * B + 1)) >>> 0
RoundMul(B) == MulRound32(B)

\* t = rotateLeft((B * (2 * B + 1)) >>> 0, 5)
Quad(B) == rotateLeft(RoundMul(B), 5)

\* A and C of a round from t and u, then [A, B, C, D] = [B, C, D, A].
EncMix(x, ks, i, t, u) ==
    <<x[2],
      Add32(rotateLeft(Xor32(x[3], u), Low5(t)), At(ks, 2 * i + 1)),
      x[4],
      Add32(rotateLeft(Xor32(x[1], t), Low5(u)), At(ks, 2 * i))>>

\* Round i of encryptBlock on the words x = <<A, B, C, D>>.
EncRound(x, ks, i) == EncMix(x, ks, i, Quad(x[2]), Quad(x[4]))

\* Rounds from, from + 1, .., to of encryptBlock applied in order (halved, and
\* the first half's four words looked at first, to keep the evaluation shallow).
RECURSIVE EncRounds(_, _, _, _), EncRest(_, _, _, _)
EncRounds(x, ks, from, to) ==
    IF to < from THEN x
    ELSE IF to = from THEN EncRound(x, ks, from)
    ELSE EncRest(EncRounds(x, ks, from, (from + to) \div 2), ks,
                 ((from + to) \div 2) + 1, to)

EncRest(left, ks, from, to) ==
    IF Len(left) = 4 THEN EncRounds(left, ks, from, to) ELSE left

\* Pre-whitening: B += S[0], D += S[1].
PreWhiten(w, ks) == <<w[1], Add32(w[2], At(ks, 0)), w[3], Add32(w[4], At(ks, 1))>>

\* Post-whitening: A += S[2r + 2], C += S[2r + 3].
PostWhiten(x, ks, r) ==
    <<Add32(x[1], At(ks, 2 * r + 2)), x[2], Add32(x[3], At(ks, 2 * r + 3)), x[4]>>

\* encryptBlock(plaintext) for a 16-byte block.
encryptBlock(ks, r, plaintext) ==
    wordsToBytes(PostWhiten(EncRounds(PreWhiten(bytesToWords(plaintext), ks),
                                      ks, 1, r), ks, r))

\* C and A of a round of decryptBlock from the rotated words y and u, t.
DecMix(y, ks, i, u, t) ==
    [y EXCEPT
       ![3] = Xor32(rotateRight(Sub32(y[3], At(ks, 2 * i + 1)), Low5(t)), u),
       ![1] = Xor32(rotateRight(Sub32(y[1], At(ks, 2 * i)), Low5(u)), t)]

\* u and t of a round are computed from the rotated D and B.
DecRotated(y, ks, i) == DecMix(y, ks, i, Quad(y[4]), Quad(y[2]))

\* A faulty variant of DecRound: u and t computed before the words are rotated.
DecRoundStale(x, ks, i) ==
    DecMix(<<x[4], x[1], x[2], x[3]>>, ks, i, Quad(x[4]), Quad(x[2]))

\* Round i of decryptBlock on the words x = <<A, B, C, D>>:
\* [A, B, C, D] = [D, A, B, C] first.
DecRound(x, ks, i) == DecRotated(<<x[4], x[1], x[2], x[3]>>, ks, i)

\* Rounds from, from - 1, .., to of decryptBlock applied in that order.
RECURSIVE DecRounds(_, _, _, _), DecRest(_, _, _, _)
DecRounds(x, ks, from, to) ==
    IF from < to THEN x
    ELSE IF from = to THEN DecRound(x, ks, from)
    ELSE DecRest(DecRounds(x, ks, from, ((from + to) \div 2) + 1), ks,
                 (from + to) \div 2, to)

DecRest(first, ks, from, to) ==
    IF Len(first) = 4 THEN DecRounds(first, ks, from, to) ELSE first

\* Undoing post-whitening: C -= S[2r + 3], A -= S[2r + 2].
UndoPostWhiten(w, ks, r) ==
    <<Sub32(w[1], At(ks, 2 * r + 2)), w[2], Sub32(w[3], At(ks, 2 * r + 3)), w[4]>>

\* Undoing pre-whitening: D -= S[1], B -= S[0].
UndoPreWhiten(x, ks) ==
    <<x[1], Sub32(x[2], At(ks, 0)), x[3], Sub32(x[4], At(ks, 1))>>

\* decryptBlock(ciphertext) for a 16-byte block.
decryptBlock(ks, r, ciphertext) ==
    wordsToBytes(UndoPreWhiten(DecRounds(UndoPostWhiten(bytesToWords(ciphertext), ks, r),
                                         ks, r, 1), ks))

\* ---------------------------------------------------------------- errors
NoError == "none"

BlockSizeError == "Block size must be 16 bytes"

IVLengthError == "IV must be 16 bytes"

InputLengthError == "Ciphertext length must be multiple of 16"

\* ---------------------------------------------------------------- padding
\* Math.ceil(length / 16) * 16
PaddedLength(n) == ((n + 15) \div 16) * 16

\* The plaintext followed by paddingValue bytes of value paddingValue.
PadWith(plaintext, paddingValue) ==
    plaintext \o [i \in 1..paddingValue |-> paddingValue]

\* A faulty variant of Pad: the plaintext is left as it is.
PadNone(plaintext) == plaintext

\* The padded copy of the plaintext: paddingValue = paddedLength - length.
Pad(plaintext) == PadWith(plaintext, PaddedLength(Len(plaintext)) - Len(plaintext))

\* buffer.slice(0, end) for end <= length: a negative end counts from the
\* end of the buffer.
SliceTo(buffer, end) ==
    SubSeq(buffer, 1, IF end >= 0 THEN end ELSE Max(Len(buffer) + end, 0))

\* The buffer without its last paddingValue bytes when that is in 1..16.
Strip(plaintext, paddingValue) ==
    IF paddingValue > 0 /\ paddingValue <= 16
    THEN SliceTo(plaintext, Len(plaintext) - paddingValue)
    ELSE plaintext

\* A faulty variant of Unpad: the padding is removed only when each of the
\* last paddingValue bytes is paddingValue.
UnpadStrict(plaintext) ==
    IF Len(plaintext) = 0 THEN plaintext
    ELSE IF \A k \in 1..Len(plaintext) :
                k > Len(plaintext) - plaintext[Len(plaintext)]
                    => plaintext[k] = plaintext[Len(plaintext)]
    THEN Strip(plaintext, plaintext[Len(plaintext)])
    ELSE plaintext

\* Removal of the padding after decryption: the last byte alone decides.  On
\* an empty buffer plaintext[-1] is undefined, both comparisons are false and
\* the buffer is returned.
Unpad(plaintext) ==
    IF Len(plaintext) = 0 THEN plaintext
    ELSE Strip(plaintext, plaintext[Len(plaintext)])

\* ------------------------------------------------------------ mode drivers
\* Block i (0-based) of a buffer: buffer.slice(16 * i, 16 * i + 16).
Block(buffer, i) == SubSeq(buffer, 16 * i + 1, 16 * i + 16)

NumBlocks(buffer) == Len(buffer) \div 16

\* block[j] = a[j] ^ b[j] for j in 0..15
XorBlock(a, b) == [j \in 1..16 |-> BitXor(a[j], b[j])]

\* The outcome of a call: the error thrown ("none" when the call returns), the
\* bytes returned, the padded plaintext an encryption worked on and the number
\* of block transforms that ran.
Thrown(e) == [err |-> e, out |-> <<>>, padded |-> <<>>, blocks |-> 0]

Returned(o, pd, n) == [err |-> NoError, out |-> o, padded |-> pd, blocks |-> n]

\* A faulty variant of CBCEncryptFrom: previousBlock is never updated, so each
\* block is mixed with the IV.
RECURSIVE CBCEncryptFromUnchained(_, _, _, _, _)
CBCEncryptFromUnchained(ks, r, padded, i, previousBlock) ==
    IF i >= NumBlocks(padded) THEN <<>>
    ELSE encryptBlock(ks, r, XorBlock(Block(padded, i), previousBlock))
             \o CBCEncryptFromUnchained(ks, r, padded, i + 1, previousBlock)

\* The CBC encryption loop from block i on, previousBlock being the previous
\* ciphertext block (the IV for block 0).
RECURSIVE CBCEncryptFrom(_, _, _, _, _), CBCEncryptNext(_, _, _, _, _)
CBCEncryptFrom(ks, r, padded, i, previousBlock) ==
    IF i >= NumBlocks(padded) THEN <<>>
    ELSE CBCEncryptNext(ks, r, padded, i,
             encryptBlock(ks, r, XorBlock(Block(padded, i), previousBlock)))

\* ciphertext.set(encryptedBlock, i); previousBlock = encryptedBlock
CBCEncryptNext(ks, r, padded, i, encryptedBlock) ==
    encryptedBlock \o CBCEncryptFrom(ks, r, padded, i + 1, encryptedBlock)

\* The CBC encryption of a padded buffer.
CBCEncryptPadded(ks, r, padded, iv) ==
    Returned(CBCEncryptFrom(ks, r, padded, 0, iv), padded, NumBlocks(padded))

\* encryptCBC(plaintext, iv)
encryptCBC(ks, r, plaintext, iv) ==
    IF Len(iv) # 16 THEN Thrown(IVLengthError)
    ELSE CBCEncryptPadded(ks, r, Pad(plaintext), iv)

\* The CBC decryption loop from block i on, previousBlock being the previous
\* ciphertext block (the IV for block 0).
RECURSIVE CBCDecryptFrom(_, _, _, _, _)
CBCDecryptFrom(ks, r, ciphertext, i, previousBlock) ==
    IF i >= NumBlocks(ciphertext) THEN <<>>
    ELSE XorBlock(decryptBlock(ks, r, Block(ciphertext, i)), previousBlock)
             \o CBCDecryptFrom(ks, r, ciphertext, i + 1, Block(ciphertext, i))

\* decryptCBC(ciphertext, iv)
decryptCBC(ks, r, ciphertext, iv) ==
    IF Len(iv) # 16 THEN Thrown(IVLengthError)
    ELSE IF Len(ciphertext) % 16 # 0 THEN Thrown(InputLengthError)
    ELSE Returned(Unpad(CBCDecryptFrom(ks, r, ciphertext, 0, iv)), <<>>,
                  NumBlocks(ciphertext))

\* A faulty variant of ECBEncryptFrom: each block is mixed with the ciphertext
\* block before it, the first one with a zero block.
ECBEncryptFromChained(ks, r, padded, i) ==
    CBCEncryptFrom(ks, r, padded, i, [j \in 1..16 |-> 0])

\* The ECB encryption loop from block i on.
RECURSIVE ECBEncryptFrom(_, _, _, _)
ECBEncryptFrom(ks, r, padded, i) ==
    IF i >= NumBlocks(padded) THEN <<>>
    ELSE encryptBlock(ks, r, Block(padded, i)) \o ECBEncryptFrom(ks, r, padded, i + 1)

\* The ECB encryption of a padded buffer.
ECBEncryptPadded(ks, r, padded) ==
    Returned(ECBEncryptFrom(ks, r, padded, 0), padded, NumBlocks(padded))

\* encryptECB(plaintext)
encryptECB(ks, r, plaintext) == ECBEncryptPadded(ks, r, Pad(plaintext))

\* The ECB decryption loop from block i on.
RECURSIVE ECBDecryptFrom(_, _, _, _)
ECBDecryptFrom(ks, r, ciphertext, i) ==
    IF i >= NumBlocks(ciphertext) THEN <<>>
    ELSE decryptBlock(ks, r, Block(ciphertext, i))
             \o ECBDecryptFrom(ks, r, ciphertext, i + 1)

\* A faulty variant of decryptECB: no length check, so the loop runs over the
\* whole blocks and decryptBlock refuses the short one left.
decryptECBUnchecked(ks, r, ciphertext) ==
    IF Len(ciphertext) % 16 # 0
    THEN [Thrown(BlockSizeError) EXCEPT !.blocks = NumBlocks(ciphertext)]
    ELSE Returned(Unpad(ECBDecryptFrom(ks, r, ciphertext, 0)), <<>>,
                  NumBlocks(ciphertext))

\* decryptECB(ciphertext)
decryptECB(ks, r, ciphertext) ==
    IF Len(ciphertext) % 16 # 0 THEN Thrown(InputLengthError)
    ELSE Returned(Unpad(ECBDecryptFrom(ks, r, ciphertext, 0)), <<>>,
                  NumBlocks(ciphertext))

\* encryptBlock / decryptBlock called directly: the size check of lines 126
\* and 159, then the transform.
encryptBlockCall(ks, r, plaintext) ==
    IF Len(plaintext) # 16 THEN Thrown(BlockSizeError)
    ELSE Returned(encryptBlock(ks, r, plaintext), <<>>, 1)

decryptBlockCall(ks, r, ciphertext) ==
    IF Len(ciphertext) # 16 THEN Thrown(BlockSizeError)
    ELSE Returned(decryptBlock(ks, r, ciphertext), <<>>, 1)

\* ------------------------------------------------------- the callers' data
\* n bytes, byte j (1-based) being (step * j) mod 256: all zero for step 0,
\* 1, 2, 3, .. for step 1.
Sample(step, n) == [j \in 1..n |-> (step * j) % 256]

\* Keys handed to the constructor: none, five bytes (a partial last word) and
\* sixteen bytes.
Keys == {<<>>, Sample(1, 5), Sample(1, 16)}

Rounds == 1..MaxRounds

\* Buffer lengths: empty, short of a block, whole blocks, one byte over.
Lengths == {0, 15, 17} \cup {16 * b : b \in 1..MaxBlocks}

Plaintexts == {Sample(step, n) : step \in {0, 1}, n \in Lengths}

IVa == Sample(1, 16)

IVb == Sample(0, 16)

IVShort == Sample(1, 15)

IVLong == Sample(1, 17)

\* Buffers handed to encryptBlock / decryptBlock.
Blocks == {IVa, IVb, IVShort, IVLong}

\* Buffers handed to the decryption drivers that no encryption produced.
Ciphertexts == {<<>>, Sample(1, 15), Sample(1, 16)}

\* Arguments of encryptCBC.
CBCEncryptArgs ==
    (Plaintexts \X {IVa})
        \cup ({Sample(0, 32), Sample(1, 16)} \X {IVb})
        \cup ({Sample(1, 15)} \X {IVShort, IVLong})

\* Arguments of decryptCBC that no encryption produced.
CBCDecryptArgs == Ciphertexts \X {IVa, IVShort}

\* ------------------------------------------------------------- call records
\* A call on the instance: its name, its arguments and its outcome.
Call(op, input, iv, res) ==
    [op |-> op, input |-> input, iv |-> iv, err |-> res.err, out |-> res.out,
     padded |-> res.padded, blocks |-> res.blocks]

NoCall == Call("none", <<>>, <<>>, Thrown(NoError))

Succeeded(c) == c.op # "none" /\ c.err = NoError

\* The bytes the last call returned, when it was an encryption by a mode
\* driver: the caller may hand them to a decryption.
Handed ==
    IF Succeeded(last) /\ last.op \in {"encryptECB", "encryptCBC"}
    THEN {last.out} ELSE {}

\* The IVs a caller tries on bytes an encryption returned: the IV of that
\* encryption (IVa after encryptECB) and another one.
HandedIVs == (IF last.op = "encryptCBC" THEN {last.iv} ELSE {IVa}) \cup {IVb}

\* A plaintext the caller builds from a decryptBlock result d = D(c): the
\* block d xor c twice, to be encrypted in CBC mode under the IV c.
Crafted ==
    IF Succeeded(last) /\ last.op = "decryptBlock"
    THEN LET x == XorBlock(last.out, last.input)
         IN  {<<x \o x, last.input>>}
    ELSE {}

\* --------------------------------------------------------------- the model
\* new RC6(key, rounds)
Init ==
    /\ key \in Keys
    /\ rounds \in Rounds
    /\ keySchedule = keyExpansion(key, rounds)
    /\ last = NoCall
    /\ source = NoCall

\* cipher.encryptBlock(x)
EncryptBlockCall(x) ==
    /\ last' = Call("encryptBlock", x, <<>>, encryptBlockCall(keySchedule, rounds, x))
    /\ source' = NoCall
    /\ UNCHANGED <<key, rounds, keySchedule>>

\* cipher.decryptBlock(x); src is the call that returned x, if any.
DecryptBlockCall(x, src) ==
    /\ last' = Call("decryptBlock", x, <<>>, decryptBlockCall(keySchedule, rounds, x))
    /\ source' = src
    /\ UNCHANGED <<key, rounds, keySchedule>>

\* cipher.encryptECB(p)
EncryptECBCall(p) ==
    /\ last' = Call("encryptECB", p, <<>>, encryptECB(keySchedule, rounds, p))
    /\ source' = NoCall
    /\ UNCHANGED <<key, rounds, keySchedule>>

\* cipher.decryptECB(c); src is the call that returned c, if any.
DecryptECBCall(c, src) ==
    /\ last' = Call("decryptECB", c, <<>>, decryptECB(keySchedule, rounds, c))
    /\ source' = src
    /\ UNCHANGED <<key, rounds, keySchedule>>

\* A faulty variant of EncryptCBCCall: the chain goes on from the last
\* ciphertext block of the encryptCBC call before, as if previousBlock were a
\* field of the instance.
EncryptCBCCallCarried(p, iv, src) ==
    /\ last' = Call("encryptCBC", p, iv,
                    encryptCBC(keySchedule, rounds, p,
                               IF last.op = "encryptCBC" /\ Len(last.out) >= 16
                               THEN Block(last.out, NumBlocks(last.out) - 1)
                               ELSE iv))
    /\ source' = src
    /\ UNCHANGED <<key, rounds, keySchedule>>

\* cipher.encryptCBC(p, iv); src is the call p was built from, if any.
EncryptCBCCall(p, iv, src) ==
    /\ last' = Call("encryptCBC", p, iv, encryptCBC(keySchedule, rounds, p, iv))
    /\ source' = src
    /\ UNCHANGED <<key, rounds, keySchedule>>

\* cipher.decryptCBC(c, iv); src is the call that returned c, if any.
DecryptCBCCall(c, iv, src) ==
    /\ last' = Call("decryptCBC", c, iv, decryptCBC(keySchedule, rounds, c, iv))
    /\ source' = src
    /\ UNCHANGED <<key, rounds, keySchedule>>

Next ==
    \/ \E x \in Blocks : EncryptBlockCall(x)
    \/ \E x \in Blocks : DecryptBlockCall(x, NoCall)
    \/ /\ Succeeded(last) /\ last.op = "encryptBlock"
       /\ DecryptBlockCall(last.out, last)
    \/ \E p \in Plaintexts : EncryptECBCall(p)
    \/ \E c \in Ciphertexts : DecryptECBCall(c, NoCall)
    \/ \E c \in Handed : DecryptECBCall(c, last)
    \/ \E a \in CBCEncryptArgs : EncryptCBCCall(a[1], a[2], NoCall)
    \/ \E a \in Crafted : EncryptCBCCall(a[1], a[2], last)
    \/ \E a \in CBCDecryptArgs : DecryptCBCCall(a[1], a[2], NoCall)
    \/ \E c \in Handed : \E iv \in HandedIVs : DecryptCBCCall(c, iv, last)

Spec == Init /\ [][Next]_vars

\* ===================================================================
\* The operations: RC6 Encrypt and RC6 Decrypt
\* ===================================================================
\* A string is the sequence of its UTF-16 code units, its length their number.
\* The rounds of the cipher an operation constructs: new RC6(keyBytes) takes
\* the default.
DefaultRounds == 20

\* ------------------------------------------------------------- conversions
\* b.toString(16).padStart(2, "0"): two lower-case hexadecimal digits.
HexDigit(n) == IF n < 10 THEN 48 + n ELSE 87 + n

ToHex(bytes) ==
    [k \in 1..(2 * Len(bytes)) |->
        HexDigit(IF k % 2 = 1 THEN bytes[(k + 1) \div 2] \div 16
                 ELSE bytes[k \div 2] % 16)]

\* The value of a hexadecimal digit.
HexValue(c) ==
    IF c \in 48..57 THEN c - 48
    ELSE IF c \in 97..102 THEN c - 87
    ELSE c - 55

\* The bytes of a string of hexadecimal digits, two digits a byte.
FromHex(text) ==
    [k \in 1..((Len(text) + 1) \div 2) |->
        IF 2 * k <= Len(text)
        THEN 16 * HexValue(text[2 * k - 1]) + HexValue(text[2 * k])
        ELSE HexValue(text[2 * k - 1])]

\* The positions of text that Array.from(text) does not start an element at:
\* the second unit of each surrogate pair, a unit of DC00..DFFF that follows
\* one of D800..DBFF.
PairTails(text) ==
    {k \in 2..Len(text) :
        /\ text[k] \in (220 * 256)..(224 * 256 - 1)
        /\ text[k - 1] \in (216 * 256)..(220 * 256 - 1)}

\* The position in text of the first unit of element j of Array.from(text).
ElementStart(text, j) ==
    CHOOSE k \in j..Len(text) :
        /\ k \notin PairTails(text)
        /\ k - Cardinality({p \in PairTails(text) : p < k}) = j

\* Array.from(s).map(c => c.charCodeAt(0)) stored in a Uint8Array: one byte
\* for each code point of s, the low 8 bits of its first code unit.
Latin1Bytes(text) ==
    IF PairTails(text) = {} THEN [k \in 1..Len(text) |-> text[k] % 256]
    ELSE [j \in 1..(Len(text) - Cardinality(PairTails(text))) |->
             text[ElementStart(text, j)] % 256]

\* The character of a Base64 digit: A-Z, a-z, 0-9, + and /.
Base64Char(n) ==
    IF n < 26 THEN 65 + n
    ELSE IF n < 52 THEN 71 + n
    ELSE IF n < 62 THEN n - 4
    ELSE IF n = 62 THEN 43 ELSE 47

\* The byte at 0-based index i, 0 past the end.
ByteOrZero(bytes, i) == IF i < Len(bytes) THEN bytes[i + 1] ELSE 0

\* Character pos (0..3) of group g of the Base64 text of bytes; "=" (61) where
\* the group has no byte left for it.
Base64At(bytes, g, pos) ==
    IF pos = 0 THEN Base64Char(ByteOrZero(bytes, 3 * g) \div 4)
    ELSE IF pos = 1
    THEN Base64Char((ByteOrZero(bytes, 3 * g) % 4) * 16
                        + ByteOrZero(bytes, 3 * g + 1) \div 16)
    ELSE IF pos = 2
    THEN IF 3 * g + 1 >= Len(bytes) THEN 61
         ELSE Base64Char((ByteOrZero(bytes, 3 * g + 1) % 16) * 4
                             + ByteOrZero(bytes, 3 * g + 2) \div 64)
    ELSE IF 3 * g + 2 >= Len(bytes) THEN 61
         ELSE Base64Char(ByteOrZero(bytes, 3 * g + 2) % 64)

\* toBase64(bytes)
ToBase64(bytes) ==
    [k \in 1..(4 * ((Len(bytes) + 2) \div 3)) |->
        Base64At(bytes, (k - 1) \div 4, (k - 1) % 4)]

\* The number of digits CryptoJS.enc.Base64.parse reads: those before the
\* first "=".
Base64Digits(text) ==
    IF \A k \in 1..Len(text) : text[k] # 61 THEN Len(text)
    ELSE (CHOOSE k \in 1..Len(text) :
              text[k] = 61 /\ \A j \in 1..(k - 1) : text[j] # 61) - 1

\* The number of bytes a Base64 text stands for: one for each digit that is
\* not the first of its group of four.
Base64Length(text) == Base64Digits(text) - (Base64Digits(text) + 3) \div 4

CallStackError == "Maximum call stack size exceeded"

\* The conversion of the ciphertext to the requested format: the error thrown
\* ("none" when it returns) and the string returned.  Whether the engine can
\* carry the bytes as the arguments of the one call
\* String.fromCharCode(...ciphertext) depends on the engine, the thread and the
\* stack left at the call, not on the program: fits tells whether it can.
EncodeOutput(bytes, outputType, fits) ==
    IF outputType = "Hex" THEN [err |-> NoError, out |-> ToHex(bytes)]
    ELSE IF outputType = "Base64" THEN [err |-> NoError, out |-> ToBase64(bytes)]
    ELSE IF Len(bytes) > 0 /\ ~fits THEN [err |-> CallStackError, out |-> <<>>]
    ELSE [err |-> NoError, out |-> bytes]

\* The input bytes of RC6 Encrypt: Utils.convertToByteString(input, inputType),
\* then the character codes.
InputBytes(input, inputType) ==
    IF inputType = "Hex" THEN FromHex(input) ELSE Latin1Bytes(input)

\* Twice ciphertext.sigBytes in RC6 Decrypt, after the parse the input type
\* selects: CryptoJS.enc.Hex.parse gives a text of n digits n / 2 bytes, a
\* half byte for an odd n.
TwiceSigBytes(input, inputType) ==
    IF inputType = "Raw" THEN 2 * Len(input)
    ELSE IF inputType = "Hex" THEN Len(input)
    ELSE 2 * Base64Length(input)

\* ------------------------------------------------------------------ UTF-8
\* decrypted.toString(CryptoJS.enc.Utf8): the bytes read as UTF-8.
\* The number of bytes of the sequence that byte b begins, 0 when none does.
Utf8Width(b) ==
    IF b < 128 THEN 1
    ELSE IF b \in 194..223 THEN 2
    ELSE IF b \in 224..239 THEN 3
    ELSE IF b \in 240..244 THEN 4
    ELSE 0

\* A well-formed sequence of w bytes begins at position k of d.
WellFormed(d, k, w) ==
    /\ w > 0
    /\ k + w - 1 <= Len(d)
    /\ \A j \in 1..(w - 1) : d[k + j] \in 128..191
    /\ (d[k] = 224 => d[k + 1] >= 160)
    /\ (d[k] = 237 => d[k + 1] <= 159)
    /\ (d[k] = 240 => d[k + 1] >= 144)
    /\ (d[k] = 244 => d[k + 1] <= 143)

\* The code point of the well-formed sequence of w bytes at position k of d.
CodePoint(d, k, w) ==
    IF w = 1 THEN d[k]
    ELSE IF w = 2 THEN (d[k] % 32) * 64 + (d[k + 1] % 64)
    ELSE IF w = 3
    THEN (d[k] % 16) * 4096 + (d[k + 1] % 64) * 64 + (d[k + 2] % 64)
    ELSE (d[k] % 8) * 262144 + (d[k + 1] % 64) * 4096
             + (d[k + 2] % 64) * 64 + (d[k + 3] % 64)

\* The code units of a code point.
CodeUnits(cp) ==
    IF cp < H16 THEN <<cp>>
    ELSE <<55296 + ((cp - H16) \div 1024), 56320 + ((cp - H16) % 1024)>>

\* The text of the bytes of d from position k on, and whether they are
\* well-formed UTF-8.
Utf8Joined(units, rest) ==
    [ok |-> rest.ok, text |-> IF rest.ok THEN units \o rest.text ELSE <<>>]

RECURSIVE Utf8From(_, _)
Utf8From(d, k) ==
    IF k > Len(d) THEN [ok |-> TRUE, text |-> <<>>]
    ELSE IF ~WellFormed(d, k, Utf8Width(d[k])) THEN [ok |-> FALSE, text |-> <<>>]
    ELSE Utf8Joined(CodeUnits(CodePoint(d, k, Utf8Width(d[k]))),
                    Utf8From(d, k + Utf8Width(d[k])))

\* ------------------------------------------------------------------ errors
EmptyKeyError == "Key cannot be empty"

EncryptIVLengthError == "IV must be 16 bytes for CBC mode"

DecryptIVLengthError == "IV must be 16 bytes long."

\* "Unsupported mode: " + mode
UnsupportedModeError(mode) == "Unsupported mode: " \o mode

NoPaddingLengthError ==
    "Input length must be a multiple of 16 bytes for NoPadding modes."

\* The TypeError of line 107 under a CryptoJS that has no RC6 member.
MissingCipherError == "Cannot read properties of undefined (reading 'decrypt')"

UnableToDecryptError ==
    "Unable to decrypt input with these parameters. The key may be incorrect or the data is corrupted."

InvalidOutputError(outputType) ==
    "Unable to decrypt input with these parameters. The key may be incorrect or the data is not valid "
        \o outputType \o "."

\* ------------------------------------------------------------ the modes
\* modeArg.split("/")[0]
ModeName(mode) ==
    IF \A k \in 1..Len(mode) : SubSeq(mode, k, k) # "/" THEN mode
    ELSE SubSeq(mode, 1,
                (CHOOSE k \in 1..Len(mode) :
                     /\ SubSeq(mode, k, k) = "/"
                     /\ \A j \in 1..(k - 1) : SubSeq(mode, j, j) # "/") - 1)

\* modeArg.endsWith("NoPadding")
NoPadding(mode) ==
    /\ Len(mode) >= Len("NoPadding")
    /\ SubSeq(mode, Len(mode) - Len("NoPadding") + 1, Len(mode)) = "NoPadding"

\* The block modes RC6 Decrypt offers in its Mode option and looks up in
\* CryptoJS.mode.
OfferedModes == {"CBC", "CFB", "OFB", "CTR", "ECB"}

\* The names every object inherits: CryptoJS.mode[name] is defined for them
\* whatever the modes of the build.
ObjectPrototypeNames ==
    {"constructor", "hasOwnProperty", "isPrototypeOf", "propertyIsEnumerable",
     "toLocaleString", "toString", "valueOf", "__proto__",
     "__defineGetter__", "__defineSetter__", "__lookupGetter__",
     "__lookupSetter__"}

\* CryptoJS.mode[modeName] is defined, table being the modes of the build.
ModeDefined(modeName, table) == modeName \in table \cup ObjectPrototypeNames

\* ------------------------------------------------------------------- runs
\* The outcome of a run: the error thrown ("none" when it returns), the string
\* returned, the padded buffer and the number of block transforms of the call
\* of the RC6 cipher, and the key schedule of the RC6 cipher the run
\* constructed (<<>> when it constructed none).
RunThrown(e, ks) ==
    [err |-> e, out |-> <<>>, padded |-> <<>>, blocks |-> 0, schedule |-> ks]

\* The outcome of a run from the outcome res of its cipher call: the cipher
\* call has done its work when the conversion of its output throws.
RunEncoded(res, outputType, ks, fits) ==
    IF res.err # NoError THEN RunThrown(res.err, ks)
    ELSE [err |-> EncodeOutput(res.out, outputType, fits).err,
          out |-> EncodeOutput(res.out, outputType, fits).out,
          padded |-> res.padded, blocks |-> res.blocks, schedule |-> ks]

\* ivBytes of RC6Encrypt.run: sixteen zero bytes for an empty IV.
EncryptIVBytes(iv) ==
    IF Len(iv) > 0 THEN Latin1Bytes(iv) ELSE [j \in 1..16 |-> 0]

\* RC6Encrypt.run once the cipher is constructed, ks being its key schedule.
EncryptWith(ks, ivBytes, mode, inputBytes, outputType, fits) ==
    IF mode = "CBC"
    THEN IF Len(ivBytes) # 16 THEN RunThrown(EncryptIVLengthError, ks)
         ELSE RunEncoded(encryptCBC(ks, DefaultRounds, inputBytes, ivBytes),
                         outputType, ks, fits)
    ELSE IF mode = "ECB"
    THEN RunEncoded(encryptECB(ks, DefaultRounds, inputBytes), outputType, ks,
                    fits)
    ELSE RunThrown(UnsupportedModeError(mode), ks)

\* RC6Encrypt.run(input, [key, iv, mode, inputType, outputType]); keyBytes and
\* iv are the converted key and IV, fits the outcome of the engine at line 255.
RC6EncryptRun(keyBytes, iv, mode, inputType, outputType, input, fits) ==
    IF Len(keyBytes) = 0 THEN RunThrown(EmptyKeyError, <<>>)
    ELSE EncryptWith(keyExpansion(Latin1Bytes(keyBytes), DefaultRounds),
                     EncryptIVBytes(iv), mode,
                     InputBytes(input, inputType), outputType, fits)

\* RC6Decrypt.run from line 113 on, d being the bytes CryptoJS.RC6.decrypt
\* returned; the run constructs no RC6 cipher of the library.
DecryptOutput(d, outputType, twiceSigBytes) ==
    IF Len(d) = 0 /\ twiceSigBytes > 0
    THEN RunThrown(UnableToDecryptError, <<>>)
    ELSE IF outputType = "Hex" THEN [RunThrown(NoError, <<>>) EXCEPT !.out = ToHex(d)]
    ELSE IF outputType = "Raw" THEN [RunThrown(NoError, <<>>) EXCEPT !.out = d]
    ELSE IF \/ ~Utf8From(d, 1).ok
            \/ (Len(Utf8From(d, 1).text) = 0 /\ Len(d) > 0)
    THEN RunThrown(InvalidOutputError(outputType), <<>>)
    ELSE [RunThrown(NoError, <<>>) EXCEPT !.out = Utf8From(d, 1).text]

\* RC6Decrypt.run(input, [key, iv, mode, inputType, outputType]).  It checks
\* the IV, the mode and, for NoPadding, the length of the ciphertext, never
\* the key, and hands the work to CryptoJS.RC6.decrypt.  cryptojs is the
\* CryptoJS the run imports: cryptojs.mode the modes it defines, cryptojs.RC6
\* the outcome of CryptoJS.RC6.decrypt, <<>> when CryptoJS has no RC6 member
\* and <<d>> when the call returns the bytes d.
RC6DecryptRun(keyBytes, iv, mode, inputType, outputType, input, cryptojs) ==
    IF Len(iv) # 16 /\ Len(iv) > 0 THEN RunThrown(DecryptIVLengthError, <<>>)
    ELSE IF ~ModeDefined(ModeName(mode), cryptojs.mode)
    THEN RunThrown(UnsupportedModeError(ModeName(mode)), <<>>)
    ELSE IF NoPadding(mode) /\ TwiceSigBytes(input, inputType) % 32 # 0
    THEN RunThrown(NoPaddingLengthError, <<>>)
    ELSE IF cryptojs.RC6 = <<>> THEN RunThrown(MissingCipherError, <<>>)
    ELSE DecryptOutput(cryptojs.RC6[1], outputType,
                       TwiceSigBytes(input, inputType))

\* ------------------------------------------------------- the recipes' data
\* The key, plaintext and ciphertext of the operations' tests.
TestKey == [j \in 1..16 |-> j - 1]

HelloWorld == <<72, 101, 108, 108, 111, 44, 32, 87, 111, 114, 108, 100, 33>>

TestCiphertext ==
    <<140, 112, 181, 234, 194, 81, 135, 40, 247, 227, 191, 88, 66, 208, 128, 181>>

OpKeys == {<<>>, TestKey}

\* An IV of 17 code units and 16 code points: its last two units are the
\* surrogate pair of U+1F600.
IVPair == Sample(1, 15) \o <<55357, 56832>>

\* The IVs of the runs, in the order the runs are tried.
OpIVs == <<IVShort, IVa, <<>>, IVPair>>

RawInputs == {<<>>, HelloWorld, Sample(1, 16)}

\* Input type and input of RC6 Encrypt.
EncryptInputs ==
    ({"Raw"} \X RawInputs) \cup ({"Hex"} \X {ToHex(t) : t \in RawInputs})

EncryptModes == {"ECB", "CBC", "CTR"}

EncryptOutputTypes == {"Hex", "Raw", "Base64"}

\* Input type and input of an RC6 Decrypt that no RC6 Encrypt fed.
DecryptInputs ==
    ({"Hex"} \X {<<>>, ToHex(TestCiphertext), ToHex(Sample(1, 15)),
                 SubSeq(ToHex(Sample(1, 17)), 1, 33)})
        \cup ({"Raw"} \X {TestCiphertext})
        \cup ({"Base64"} \X {ToBase64(TestCiphertext)})

DecryptModes ==
    {"ECB", "CBC", "CBC/NoPadding", "ECB/xNoPadding", "CBCNoPadding", "XTS",
     "CTRGladman", "constructor"}

\* The output type of RC6 Decrypt that gives back what RC6 Encrypt was given
\* as input of type inputType.
OutputTypeFor(inputType) == IF inputType = "Hex" THEN "Hex" ELSE "Raw"

\* The CryptoJS a run of RC6 Decrypt may import.  Its modes: those the
\* operation offers, with CTRGladman or without.  Its RC6 member: none (<<>>),
\* or a cipher whose decrypt returns one of the byte strings d.
CryptoJSBuilds ==
    [mode : {OfferedModes, OfferedModes \cup {"CTRGladman"}},
     RC6 : {<<>>} \cup {<<d>> : d \in RawInputs \cup {TestCiphertext}}]

\* ------------------------------------------------------------ run records
\* A run of an operation: its name, its arguments and its outcome.
Run(op, keyBytes, iv, mode, inputType, outputType, input, res) ==
    [op |-> op, key |-> keyBytes, iv |-> iv, mode |-> mode,
     inputType |-> inputType, outputType |-> outputType, input |-> input,
     err |-> res.err, out |-> res.out, padded |-> res.padded,
     blocks |-> res.blocks]

\* --------------------------------------------------- the model of a recipe
\* No operation has run and no cipher is constructed.
OpInit ==
    /\ key = <<>>
    /\ rounds = DefaultRounds
    /\ keySchedule = <<>>
    /\ last = NoCall
    /\ source = NoCall

\* The run res of operation op: key, rounds and keySchedule are those of the
\* cipher it constructed, src the run that returned its input, if any.
Ran(op, keyBytes, iv, mode, inputType, outputType, input, res, src) ==
    /\ key' = keyBytes
    /\ rounds' = DefaultRounds
    /\ keySchedule' = res.schedule
    /\ last' = Run(op, keyBytes, iv, mode, inputType, outputType, input, res)
    /\ source' = src

\* RC6 Encrypt as the first operation of a recipe.
EncryptRun(keyBytes, iv, mode, inputType, outputType, input, fits) ==
    /\ last.op = "none"
    /\ Ran("RC6 Encrypt", keyBytes, iv, mode, inputType, outputType, input,
           RC6EncryptRun(keyBytes, iv, mode, inputType, outputType, input,
                         fits),
           NoCall)

\* RC6 Decrypt as the first operation of a recipe.
DecryptRun(keyBytes, iv, mode, inputType, outputType, input, cryptojs) ==
    /\ last.op = "none"
    /\ Ran("RC6 Decrypt", keyBytes, iv, mode, inputType, outputType, input,
           RC6DecryptRun(keyBytes, iv, mode, inputType, outputType, input,
                         cryptojs),
           NoCall)

\* RC6 Decrypt on the output of the RC6 Encrypt before it, with its key, IV
\* and mode.
DecryptAfterEncrypt(cryptojs) ==
    /\ last.op = "RC6 Encrypt" /\ last.err = NoError
    /\ Ran("RC6 Decrypt", last.key, last.iv, last.mode, last.outputType,
           OutputTypeFor(last.inputType), last.out,
           RC6DecryptRun(last.key, last.iv, last.mode, last.outputType,
                         OutputTypeFor(last.inputType), last.out, cryptojs),
           last)

OpNext ==
    \/ \E k \in OpKeys, m \in EncryptModes, i \in EncryptInputs,
          o \in EncryptOutputTypes, fits \in BOOLEAN, n \in DOMAIN OpIVs :
              EncryptRun(k, OpIVs[n], m, i[1], o, i[2], fits)
    \/ \E k \in OpKeys, m \in DecryptModes, i \in DecryptInputs,
          o \in {"UTF8", "Hex", "Raw"}, c \in CryptoJSBuilds,
          n \in DOMAIN OpIVs :
              DecryptRun(k, OpIVs[n], m, i[1], o, i[2], c)
    \/ \E c \in CryptoJSBuilds : DecryptAfterEncrypt(c)

OpSpec == OpInit /\ [][OpNext]_vars

\* ===================================================================
\* Properties
\* ===================================================================
ModeEncryptions == {"encryptECB", "encryptCBC"}

ModeDecryptions == {"decryptECB", "decryptCBC"}

BlockIndices(buffer) == 0..(NumBlocks(buffer) - 1)

\* The call threw e: nothing was returned and no block transform had run.
Failed(c, e) == c.err = e /\ c.out = <<>> /\ c.blocks = 0

\* The outcome recorded for call c is the outcome res.
SameOutcome(c, res) ==
    /\ c.err = res.err
    /\ c.out = res.out
    /\ c.padded = res.padded
    /\ c.blocks = res.blocks

\* C1: with a non-empty key, decryptECB of what encryptECB returned for p, and
\* decryptCBC under iv of what encryptCBC returned for p under iv, on the same
\* instance, return p, whatever the length and the last byte of p.
C1_ModeRoundTrip ==
    key # <<>> =>
        /\ (last.op = "decryptECB" /\ source.op = "encryptECB"
                /\ last.input = source.out)
              => (last.err = NoError /\ last.out = source.input)
        /\ (last.op = "decryptCBC" /\ source.op = "encryptCBC"
                /\ last.input = source.out /\ last.iv = source.iv)
              => (last.err = NoError /\ last.out = source.input)

\* C2: with a non-empty key and any round count, decryptBlock of what
\* encryptBlock returned for a 16-byte block x returns x, and encryptBlock
\* sends different blocks to different blocks.
C2_BlockRoundTrip ==
    key # <<>> =>
        /\ (last.op = "decryptBlock" /\ source.op = "encryptBlock"
                /\ last.input = source.out)
              => (last.err = NoError /\ last.out = source.input)
        /\ (last.op = "encryptBlock" /\ last.err = NoError)
              => \A y \in Blocks :
                    (Len(y) = 16 /\ y # last.input)
                        => encryptBlock(keySchedule, rounds, y) # last.out

\* C2 happens: a block came back from decryptBlock after encryptBlock.
C2_Witness ==
    /\ key # <<>>
    /\ last.op = "decryptBlock" /\ source.op = "encryptBlock"
    /\ last.input = source.out
    /\ last.out = source.input
    /\ last.out # last.input

\* C3: encryptECB and encryptCBC work on the plaintext followed by
\* n = 16 - (len mod 16) bytes of value n (a whole block of 0x10 when len is a
\* multiple of 16), and return len + n bytes.
C3_PaddingAppended ==
    (last.op \in ModeEncryptions /\ last.err = NoError)
        => /\ last.padded = PadWith(last.input, 16 - (Len(last.input) % 16))
           /\ Len(last.out) = Len(last.input) + (16 - (Len(last.input) % 16))

\* C4 as stated: decryptECB and decryptCBC with a buffer whose length is not a
\* multiple of 16 throw the input-length error, and encryptCBC and decryptCBC
\* with an IV that is not 16 bytes throw the IV-length error; either way
\* nothing is returned and no block transform has run.
C4_LengthErrors ==
    /\ (last.op \in ModeDecryptions /\ Len(last.input) % 16 # 0)
          => Failed(last, InputLengthError)
    /\ (last.op \in {"encryptCBC", "decryptCBC"} /\ Len(last.iv) # 16)
          => Failed(last, IVLengthError)

\* C4, amended: encryptCBC and decryptCBC with an IV that is not 16 bytes throw
\* the IV-length error; decryptECB, and decryptCBC under a 16-byte IV, with a
\* buffer whose length is not a multiple of 16 throw the input-length error;
\* either way nothing is returned and no block transform has run.
C4_LengthValidation ==
    /\ (last.op \in {"encryptCBC", "decryptCBC"} /\ Len(last.iv) # 16)
          => Failed(last, IVLengthError)
    /\ (last.op = "decryptECB" /\ Len(last.input) % 16 # 0)
          => Failed(last, InputLengthError)
    /\ (last.op = "decryptCBC" /\ Len(last.iv) = 16 /\ Len(last.input) % 16 # 0)
          => Failed(last, InputLengthError)

\* C4 happens: decryptCBC was refused a 15-byte buffer under a 16-byte IV.
C4_Witness ==
    /\ last.op = "decryptCBC"
    /\ Len(last.iv) = 16
    /\ Len(last.input) % 16 # 0
    /\ Failed(last, InputLengthError)

\* C5: decryptECB, and decryptCBC under a 16-byte IV, throw the input-length
\* error for an empty ciphertext.
C5_EmptyRejected ==
    (/\ last.op \in ModeDecryptions
     /\ Len(last.input) = 0
     /\ (last.op = "decryptCBC" => Len(last.iv) = 16))
        => last.err = InputLengthError

\* The reference round function: B * (2 * B + 1) reduced exactly modulo 2^32.
ExactQuad(B) == rotateLeft(MulExact32(B), 5)

ExactEncRound(x, ks, i) == EncMix(x, ks, i, ExactQuad(x[2]), ExactQuad(x[4]))

RECURSIVE ExactEncRounds(_, _, _, _), ExactEncRest(_, _, _, _)
ExactEncRounds(x, ks, from, to) ==
    IF to < from THEN x
    ELSE IF to = from THEN ExactEncRound(x, ks, from)
    ELSE ExactEncRest(ExactEncRounds(x, ks, from, (from + to) \div 2), ks,
                      ((from + to) \div 2) + 1, to)

ExactEncRest(left, ks, from, to) ==
    IF Len(left) = 4 THEN ExactEncRounds(left, ks, from, to) ELSE left

\* The reference encryption of a 16-byte block.
ExactEncryptBlock(ks, r, plaintext) ==
    wordsToBytes(PostWhiten(ExactEncRounds(PreWhiten(bytesToWords(plaintext), ks),
                                           ks, 1, r), ks, r))

\* The words B and D that the first round of encryptBlock multiplies.
FirstEncWords(ks, plaintext) ==
    <<PreWhiten(bytesToWords(plaintext), ks)[2],
      PreWhiten(bytesToWords(plaintext), ks)[4]>>

\* The words B and D that the first undone round of decryptBlock multiplies
\* (A and C of the block once post-whitening is undone).
FirstDecWords(ks, r, ciphertext) ==
    <<UndoPostWhiten(bytesToWords(ciphertext), ks, r)[1],
      UndoPostWhiten(bytesToWords(ciphertext), ks, r)[3]>>

\* C6: with a non-empty key, the t and u of a round are rotateLeft(B * (2B + 1) mod 2^32, 5) with the
\* product reduced exactly, for the words the first round of encryptBlock and
\* the first undone round of decryptBlock work on, and encryptBlock returns
\* what the reference algorithm returns.
C6_ExactProduct ==
    /\ (key # <<>> /\ last.op = "encryptBlock" /\ last.err = NoError)
          => /\ \A B \in {FirstEncWords(keySchedule, last.input)[n] : n \in 1..2} :
                    Quad(B) = ExactQuad(B)
             /\ last.out = ExactEncryptBlock(keySchedule, rounds, last.input)
    /\ (key # <<>> /\ last.op = "decryptBlock" /\ last.err = NoError)
          => \A B \in {FirstDecWords(keySchedule, rounds, last.input)[n] : n \in 1..2} :
                Quad(B) = ExactQuad(B)

\* C7: the key schedule of the instance has 2 * (rounds + 2) words and is the
\* schedule the constructor derived, after any sequence of calls.
C7_ScheduleImmutable ==
    /\ Len(keySchedule) = 2 * (rounds + 2)
    /\ keySchedule = keyExpansion(key, rounds)

\* C7 happens: two calls have run on the instance, and its schedule is still
\* the one the constructor derived.
C7_Witness ==
    /\ last.op = "decryptECB" /\ source.op = "encryptECB"
    /\ Len(keySchedule) = 2 * (rounds + 2)
    /\ keySchedule = keyExpansion(key, rounds)

\* C8: what encryptCBC(p, iv) and decryptCBC(c, iv) do on the instance, after
\* whatever calls came before, is what they do on a freshly constructed
\* instance with the same key and rounds.
C8_CBCPerCall ==
    /\ last.op = "encryptCBC"
          => SameOutcome(last, encryptCBC(keyExpansion(key, rounds), rounds,
                                          last.input, last.iv))
    /\ last.op = "decryptCBC"
          => SameOutcome(last, decryptCBC(keyExpansion(key, rounds), rounds,
                                          last.input, last.iv))

\* C8 happens: decryptCBC ran under another IV than the encryptCBC before it.
C8_Witness ==
    /\ last.op = "decryptCBC" /\ source.op = "encryptCBC"
    /\ Len(last.iv) = 16 /\ last.iv # source.iv
    /\ last.err = NoError /\ Len(last.input) > 0

\* The value block i of a CBC encryption is chained with: the IV for block 0,
\* else the ciphertext block before it.
ChainValue(iv, out, i) == IF i = 0 THEN iv ELSE Block(out, i - 1)

\* The plaintext blocks before block i.
Prefix(padded, i) == SubSeq(padded, 1, 16 * i)

\* The buffers block positions of the last call are compared with: the
\* callers' plaintexts and the buffer of the call itself.
Compared == Plaintexts \cup {last.input}

\* Equal plaintext blocks after different prefixes have different ciphertext
\* blocks, between the CBC encryption c and the CBC encryption d of another
\* buffer under the same key and IV.
PrefixDiffusion(c, d) ==
    \A i \in BlockIndices(c.padded) : \A j \in BlockIndices(d.padded) :
        (/\ Block(c.padded, i) = Block(d.padded, j)
         /\ Prefix(c.padded, i) # Prefix(d.padded, j))
            => Block(c.out, i) # Block(d.out, j)

\* C9 as stated: for a fixed non-empty key and an IV, identical plaintext blocks that
\* follow different prefixes, in one buffer or in two, get different
\* ciphertext blocks from encryptCBC.
C9_PrefixDiffusion ==
    (key # <<>> /\ last.op = "encryptCBC" /\ last.err = NoError)
        => \A q \in Compared :
              PrefixDiffusion(last, encryptCBC(keySchedule, rounds, q, last.iv))

\* Equal plaintext blocks chained with different values have different
\* ciphertext blocks.
ChainDiffusion(c, d, iv) ==
    \A i \in BlockIndices(c.padded) : \A j \in BlockIndices(d.padded) :
        (/\ Block(c.padded, i) = Block(d.padded, j)
         /\ ChainValue(iv, c.out, i) # ChainValue(iv, d.out, j))
            => Block(c.out, i) # Block(d.out, j)

\* C9 amended: for a fixed key and IV, identical plaintext blocks that are
\* chained with different values (the ciphertext block before them, the IV for
\* a first block), in one buffer or in two, get different ciphertext blocks.
C9_ChainDiffusion ==
    (last.op = "encryptCBC" /\ last.err = NoError)
        => \A q \in Compared :
              ChainDiffusion(last, encryptCBC(keySchedule, rounds, q, last.iv),
                             last.iv)

\* C9 happens: two equal plaintext blocks of one buffer were chained with
\* different values and got different ciphertext blocks.
C9_Witness ==
    /\ last.op = "encryptCBC" /\ last.err = NoError
    /\ NumBlocks(last.padded) >= 2
    /\ Block(last.padded, 0) = Block(last.padded, 1)
    /\ ChainValue(last.iv, last.out, 0) # ChainValue(last.iv, last.out, 1)
    /\ Block(last.out, 0) # Block(last.out, 1)

\* Equal padded plaintext blocks have equal ciphertext blocks, between the ECB
\* encryptions c and d under one key schedule.
SameBlocks(c, d) ==
    \A i \in BlockIndices(c.padded) : \A j \in BlockIndices(d.padded) :
        Block(c.padded, i) = Block(d.padded, j)
            => Block(c.out, i) = Block(d.out, j)

\* C10: in encryptECB identical blocks of the padded buffer get identical
\* ciphertext blocks wherever they stand; a ciphertext block depends on the
\* key schedule and its own padded plaintext block alone, so the same holds
\* against the blocks of any other buffer.
C10_ECBIndependent ==
    (last.op = "encryptECB" /\ last.err = NoError)
        => \A q \in Compared : SameBlocks(last, encryptECB(keySchedule, rounds, q))

\* C10 happens: two equal blocks of one buffer got equal ciphertext blocks.
C10_Witness ==
    /\ last.op = "encryptECB" /\ last.err = NoError
    /\ NumBlocks(last.padded) >= 2
    /\ Block(last.padded, 0) = Block(last.padded, 1)
    /\ Block(last.out, 0) = Block(last.out, 1)

Operations == {"RC6 Encrypt", "RC6 Decrypt"}

\* C11: a run of RC6 Encrypt or of RC6 Decrypt whose converted key has no
\* bytes throws the empty-key error, having constructed no cipher, run no
\* block transform and returned nothing.
C11_EmptyKeyRejected ==
    (last.op \in Operations /\ Len(last.key) = 0)
        => /\ last.err = EmptyKeyError
           /\ keySchedule = <<>>
           /\ last.blocks = 0
           /\ last.out = <<>>

\* C12: RC6 Decrypt, run with the key, IV and mode of a successful RC6 Encrypt
\* on the output of that run, returns without error the input RC6 Encrypt was
\* given.
C12_OperationInverse ==
    (/\ last.op = "RC6 Decrypt"
     /\ source.op = "RC6 Encrypt" /\ source.err = NoError
     /\ last.key = source.key /\ last.iv = source.iv /\ last.mode = source.mode
     /\ last.input = source.out)
        => /\ last.err = NoError
           /\ last.out = source.input

\* The key words the empty-key rule gives a zero-length key: c = 1, a single
\* zero-valued word.
EmptyKeyWords == <<Zero32>>

\* C13: for a zero-length key the schedule of the instance is the one the
\* mixing loop yields with c = 1 and a single zero-valued key word that is
\* read and rewritten (B = keyWords[0] = rotateLeft(keyWords[0] + A + B,
\* (A + B) mod 32)) at every one of the 3 * max(t, c) steps.
C13_EmptyKeySchedule ==
    key = <<>> => keySchedule = Schedule(EmptyKeyWords, 2 * (rounds + 2))

\* The decryption call c passed the checks of its driver.
PassedDecryptChecks(c) ==
    /\ Len(c.input) % 16 = 0
    /\ (c.op = "decryptCBC" => Len(c.iv) = 16)

\* The buffer the block loop of the decryption call c filled, before the
\* padding is removed.
Decrypted(c) ==
    IF c.op = "decryptECB" THEN ECBDecryptFrom(keySchedule, rounds, c.input, 0)
    ELSE CBCDecryptFrom(keySchedule, rounds, c.input, 0, c.iv)

\* The last v bytes of d are not all v.
Malformed(d, v) == \E k \in (Len(d) - v + 1)..Len(d) : d[k] # v

\* What the last byte of d alone decides: d without its last v bytes when
\* that byte v is in 1..16, d otherwise.
ByLastByte(d) ==
    IF Len(d) > 0 /\ d[Len(d)] \in 1..16
    THEN SubSeq(d, 1, Len(d) - d[Len(d)])
    ELSE d

\* C14: a decryptECB or decryptCBC call that passed its checks returns, with
\* no error, the decrypted buffer without its last v bytes when its last byte
\* v is in 1..16 and the decrypted buffer unchanged otherwise, whether or not
\* the last v bytes are all v.
C14_PermissiveUnpad ==
    (last.op \in ModeDecryptions /\ PassedDecryptChecks(last))
        => /\ last.err = NoError
           /\ last.out = ByLastByte(Decrypted(last))

\* C14 happens: a decryption whose buffer ended in a byte v in 1..16 after
\* bytes that are not all v returned the buffer without its last v bytes.
C14_Witness ==
    /\ last.op \in ModeDecryptions /\ PassedDecryptChecks(last)
    /\ Len(last.input) > 0
    /\ Decrypted(last)[Len(last.input)] \in 1..16
    /\ Malformed(Decrypted(last), Decrypted(last)[Len(last.input)])
    /\ last.err = NoError
    /\ Len(last.out) = Len(last.input) - Decrypted(last)[Len(last.input)]

BlockCalls == {"encryptBlock", "decryptBlock"}

\* The mode driver call c passed the IV and length checks of its driver.
PassedChecks(c) ==
    IF c.op \in ModeDecryptions THEN PassedDecryptChecks(c)
    ELSE c.op = "encryptCBC" => Len(c.iv) = 16

\* The buffer the block loop of the mode driver call c walks: the padded
\* plaintext of an encryption, the ciphertext of a decryption.
Walked(c) == IF c.op \in ModeEncryptions THEN c.padded ELSE c.input

\* The offsets / 16 the loop for (i = 0; i < length; i += 16) visits.
LoopIndices(buffer) == 0..(((Len(buffer) + 15) \div 16) - 1)

\* buffer.slice(16 * i, 16 * i + 16): short when the buffer ends before.
SliceBlock(buffer, i) ==
    SubSeq(buffer, 16 * i + 1, IF 16 * i + 16 <= Len(buffer)
                               THEN 16 * i + 16 ELSE Len(buffer))

\* The blocks the loop of the mode driver call c hands to the block
\* transform: slices of the walked buffer, mixed with the chaining value in
\* encryptCBC.
HandedBlocks(c) ==
    IF c.op = "encryptCBC"
    THEN {XorBlock(SliceBlock(c.padded, i), ChainValue(c.iv, c.out, i)) :
              i \in LoopIndices(c.padded)}
    ELSE {SliceBlock(Walked(c), i) : i \in LoopIndices(Walked(c))}

\* The call of the block transform the driver op makes on block b.
BlockCallOf(op, b) ==
    IF op \in ModeEncryptions THEN encryptBlockCall(keySchedule, rounds, b)
    ELSE decryptBlockCall(keySchedule, rounds, b)

\* C15: encryptBlock and decryptBlock throw the block-size error exactly when
\* their input is not 16 bytes and return 16 bytes otherwise; a call of a mode
\* driver that passed its IV and length checks walks a whole number of
\* blocks, hands 16 bytes to each call of the block transform and gets 16
\* bytes back, and does not end in the block-size error.
C15_BlockSize ==
    /\ last.op \in BlockCalls
          => /\ (last.err = BlockSizeError) <=> (Len(last.input) # 16)
             /\ last.err \in {NoError, BlockSizeError}
             /\ last.err = NoError => Len(last.out) = 16
    /\ (last.op \in ModeEncryptions \cup ModeDecryptions /\ PassedChecks(last))
          => /\ last.err = NoError
             /\ Len(Walked(last)) % 16 = 0
             /\ last.blocks = NumBlocks(Walked(last))
             /\ \A b \in HandedBlocks(last) :
                    /\ Len(b) = 16
                    /\ BlockCallOf(last.op, b).err = NoError
                    /\ Len(BlockCallOf(last.op, b).out) = 16

\* C15 happens: encryptECB was given a plaintext that is not a whole number
\* of blocks and handed two blocks to encryptBlock.
C15_Witness ==
    /\ last.op = "encryptECB"
    /\ Len(last.input) % 16 # 0
    /\ last.blocks = 2
    /\ last.err = NoError
    /\ \A b \in HandedBlocks(last) : Len(b) = 16

====
